---- MODULE Spec2Model ----
(***************************************************************************)
(* The transaction data engine of transaction-history: the zustand store   *)
(* (stores/transactionStore.ts) with its pure helpers filterTransactions,  *)
(* sortTransactions and calculateStats, and the data source it loads from. *)
(*                                                                         *)
(* Representation.                                                         *)
(*  - An optional value (a field declared with ?, a value that may be      *)
(*    undefined or null) is a tuple: <<>> when absent, <<v>> when v.       *)
(*  - A JavaScript string that the code takes apart (id, description,      *)
(*    search) is a sequence of one-character strings.                      *)
(*  - An ISO timestamp "YYYY-MM-DDTHH:mm:ss.sssZ" (Date.toISOString, always *)
(*    UTC) is the record [day, tick]: the calendar day before the 'T' and   *)
(*    the time of day after it.  A date-only string "YYYY-MM-DD" is its    *)
(*    day number.                                                          *)
(*  - An amount is held as its count of hundredths: the amount 50 is the   *)
(*    number 0.5, that is, the double nearest to 50/100.  Comparisons of   *)
(*    amounts are comparisons of these counts.  The numbers calculateStats *)
(*    computes are IEEE-754 doubles, each a sign and a magnitude in units  *)
(*    of 2^-60 held as four 24-bit limbs, least significant first, with    *)
(*    the sum of two doubles rounded to 53 significant bits, ties to even. *)
(***************************************************************************)
EXTENDS Integers, Sequences, FiniteSets, TLC

\* ------------------------------------------------------------------ bounds
\* Longest transaction sequence handed to calculateStats on its own.
MaxLen == 3
\* Longest selection of ledger entries handed to filterTransactions on its own.
MaxPick == 2
\* Most keys the filters object holds at once.
MaxFilterKeys == 2
\* Most loadTransactions calls awaiting their timer at once.
MaxInFlight == 2

\* ------------------------------------------------------- optional values
None == <<>>
Some(v) == <<v>>
IsSome(o) == Len(o) = 1
The(o) == o[1]

\* ------------------------------------------------------------ value sets
TransactionTypes == {"deposit", "withdraw", "transfer"}
SortFields == {"date", "amount", "type"}
Sorts == [field : SortFields, direction : {"asc", "desc"}]
FilterKeys == {"dateFrom", "dateTo", "type", "minAmount", "currency", "search"}

Ticks == {0, 1}
TicksPerDay == Cardinality(Ticks)
IsoDates == [day : {0, 1}, tick : Ticks]

\* new Date(iso).getTime()
getTime(date) == date.day * TicksPerDay + date.tick
\* iso.split('T')[0]
dateKey(date) == date.day
\* new Date("YYYY-MM-DD").getTime(): a date-only string is UTC midnight
parseDay(day) == day * TicksPerDay

\* the member of a set of one
Only(S) == CHOOSE x \in S : TRUE

\* ---------------------------------------------------------------- strings
LowerChar(c) ==
  CASE c = "P" -> "p"
    [] c = "A" -> "a"
    [] c = "Y" -> "y"
    [] c = "T" -> "t"
    [] OTHER -> c

toLowerCase(s) == [i \in 1..Len(s) |-> LowerChar(s[i])]

includes(s, term) ==
  \E i \in 0..(Len(s) - Len(term)) : SubSeq(s, i + 1, i + Len(term)) = term

\* `t${index.toString().padStart(6, '0')}` for index < 10
DigitChar(i) == CASE i = 0 -> "0" [] i = 1 -> "1" [] i = 2 -> "2" [] i = 3 -> "3"
                  [] i = 4 -> "4" [] i = 5 -> "5" [] i = 6 -> "6" [] i = 7 -> "7"
                  [] i = 8 -> "8" [] i = 9 -> "9"
IdOf(index) == <<"t", "0", "0", "0", "0", "0", DigitChar(index)>>

\* ------------------------------------------ values of another type
\* The cache is read back with JSON.parse and used as it is, so an entry can
\* hold a value of another type than Transaction declares, or lack a field.
\* the number 5 where a type label is declared
NumberType == "number 5"
\* the number 7 where a description is declared
NumberDescription == <<"number 7">>
\* the number 5 where an ISO timestamp is declared
NumberDate == [number |-> 5]

\* new Date(5) is 5 ms after 1970-01-01T00:00Z: counted from the ledger's
\* first day, which the generator puts within the year before now, a day more
\* than fifty years back, before every day of the ledger and of the filters
EpochDay == -20000

\* Array.isArray: a string is held as the sequence of its characters, each
\* [char |-> c]
IsArray(value) == \A i \in 1..Len(value) : "char" \notin DOMAIN value[i]

\* a JavaScript number that may be NaN: <<>> when NaN, <<v>> when v
NaN == <<>>

\* new Date(transaction.date).getTime(): NaN for an entry without date
\* (new Date(undefined)), the time of the epoch's first tick for a number
timeOf(transaction) ==
  IF "date" \notin DOMAIN transaction THEN NaN
  ELSE IF "number" \in DOMAIN transaction.date THEN Some(parseDay(EpochDay))
  ELSE Some(getTime(transaction.date))

\* a - b, NaN when either is
difference(a, b) == IF IsSome(a) /\ IsSome(b) THEN Some(The(a) - The(b)) ELSE NaN

\* -v
negated(v) == IF IsSome(v) THEN Some(0 - The(v)) ELSE NaN

\* a.localeCompare(b) on the three type labels: deposit < transfer < withdraw.
\* A number passed as b is converted to a string of digits, which sorts
\* before every label; a number as a has no localeCompare (compareThrown).
TypeRank(type) == CASE type = NumberType -> -1
                    [] type = "deposit" -> 0
                    [] type = "transfer" -> 1
                    [] type = "withdraw" -> 2
localeCompare(a, b) == IF TypeRank(a) < TypeRank(b) THEN -1
                       ELSE IF TypeRank(a) > TypeRank(b) THEN 1 ELSE 0

\* ---------------------------------------------------------------- numbers
LimbBits == 24
LimbBase == 2^LimbBits
\* significant bits of a double
Precision == 53
\* a magnitude counts units of 2^-UnitBits
UnitBits == 60

NoMagnitude == <<0, 0, 0, 0>>

\* the exact sum of two magnitudes
magAdd(a, b) ==
  LET s1 == a[1] + b[1]
      s2 == a[2] + b[2] + (s1 \div LimbBase)
      s3 == a[3] + b[3] + (s2 \div LimbBase)
      s4 == a[4] + b[4] + (s3 \div LimbBase)
  IN <<s1 % LimbBase, s2 % LimbBase, s3 % LimbBase, s4>>

\* the exact difference of two magnitudes, the first not the smaller
magSub(a, b) ==
  LET d1 == a[1] - b[1]
      d2 == a[2] - b[2] - (IF d1 < 0 THEN 1 ELSE 0)
      d3 == a[3] - b[3] - (IF d2 < 0 THEN 1 ELSE 0)
      d4 == a[4] - b[4] - (IF d3 < 0 THEN 1 ELSE 0)
  IN <<d1 % LimbBase, d2 % LimbBase, d3 % LimbBase, d4>>

magLess(a, b) ==
  \E i \in 1..4 : a[i] < b[i] /\ \A j \in (i + 1)..4 : a[j] = b[j]

\* the number of bits of a number below 256, worked out once
ByteBits ==
  [v \in 0..255 |-> IF v = 0 THEN 0 ELSE CHOOSE b \in 1..8 : 2^(b - 1) <= v /\ v < 2^b]

\* the number of bits of a limb
limbBits(v) ==
  IF v >= 2^24 THEN 24 + ByteBits[v \div 2^24]
  ELSE IF v >= 2^16 THEN 16 + ByteBits[v \div 2^16]
  ELSE IF v >= 2^8 THEN 8 + ByteBits[v \div 2^8]
  ELSE ByteBits[v]

\* the number of bits of a magnitude, 0 for none
bitLength(mag) ==
  IF mag[4] # 0 THEN 3 * LimbBits + limbBits(mag[4])
  ELSE IF mag[3] # 0 THEN 2 * LimbBits + limbBits(mag[3])
  ELSE IF mag[2] # 0 THEN LimbBits + limbBits(mag[2])
  ELSE limbBits(mag[1])

\* round to nearest, ties to even, at Precision significant bits; sticky says
\* the exact value lies above the magnitude by less than one unit.  The bits
\* below the last kept one (bit drop, in limb drop \div LimbBits + 1) go: the
\* highest of them is the half, the others and sticky decide a tie.
roundToDouble(mag, sticky) ==
  Only({ IF drop <= 0 THEN m
         ELSE LET limb == drop \div LimbBits + 1
                  ulp == 2^(drop % LimbBits)
                  halfLimb == (drop - 1) \div LimbBits + 1
                  halfBit == 2^((drop - 1) % LimbBits)
                  half == (m[halfLimb] \div halfBit) % 2 = 1
                  rest == \/ m[halfLimb] % halfBit # 0
                          \/ \E j \in 1..(halfLimb - 1) : m[j] # 0
                          \/ sticky
                  odd == (m[limb] \div ulp) % 2 = 1
                  down == [j \in 1..4 |-> IF j < limb THEN 0
                                          ELSE IF j = limb THEN m[j] - (m[j] % ulp)
                                          ELSE m[j]]
              IN IF half /\ (rest \/ odd)
                 THEN magAdd(down, [j \in 1..4 |-> IF j = limb THEN ulp ELSE 0])
                 ELSE down
       : <<m, drop>> \in {<<n, bitLength(n) - Precision>> : n \in {mag}} })

\* the double nearest to hundredths / 100
nearestDouble(hundredths) ==
  LET abs == IF hundredths < 0 THEN 0 - hundredths ELSE hundredths
      \* abs * 2^UnitBits, then the long division by 100
      top == abs * 2^(UnitBits - 2 * LimbBits)
      m4 == top \div LimbBase
      m3 == top % LimbBase
      c3 == (m4 % 100) * LimbBase + m3
      c2 == (c3 % 100) * LimbBase
      c1 == (c2 % 100) * LimbBase
  IN [neg |-> hundredths < 0,
      mag |-> roundToDouble(<<c1 \div 100, c2 \div 100, c3 \div 100, m4 \div 100>>,
                            c1 % 100 # 0)]

\* the doubles of the small amounts, worked out once
Numbers == [hundredths \in 0..100 |-> nearestDouble(hundredths)]

\* the number a count of hundredths stands for: the double nearest to
\* hundredths / 100, as JSON.parse and Math.round(x * 100) / 100 give it
Number(hundredths) ==
  IF hundredths \in DOMAIN Numbers THEN Numbers[hundredths] ELSE nearestDouble(hundredths)

Zero == Number(0)

\* a + b
plus(a, b) ==
  IF a.neg = b.neg
  THEN [neg |-> a.neg, mag |-> roundToDouble(magAdd(a.mag, b.mag), FALSE)]
  ELSE IF a.mag = b.mag THEN Zero
  ELSE IF magLess(a.mag, b.mag)
  THEN [neg |-> b.neg, mag |-> roundToDouble(magSub(b.mag, a.mag), FALSE)]
  ELSE [neg |-> a.neg, mag |-> roundToDouble(magSub(a.mag, b.mag), FALSE)]

\* a - b
minus(a, b) == plus(a, [b EXCEPT !.neg = (b.mag # NoMagnitude /\ ~b.neg)])

\* ------------------------------------------------------------------- sort
\* Array.prototype.sort as V8 runs it on a short array.  cmp[j][i] is how the
\* comparator completes on (seq[j], seq[i]): what it throws, if it does, and
\* else the order, its result with NaN taken as 0.  The work array holds
\* indices into seq.  With a comparator that is consistent and does not throw
\* the result is the stable sort; otherwise it depends on the calls made.

\* the end of the run that starts the array: elements are added while they
\* keep the direction the first two have
RECURSIVE CountRun(_, _, _, _)
CountRun(cmp, work, idx, isDescending) ==
  IF idx > Len(work) THEN [thrown |-> None, length |-> idx - 1]
  ELSE LET call == cmp[work[idx]][work[idx - 1]]
       IN IF IsSome(call.thrown) THEN [thrown |-> call.thrown, length |-> idx - 1]
          ELSE IF isDescending /\ call.order >= 0 THEN [thrown |-> None, length |-> idx - 1]
          ELSE IF ~isDescending /\ call.order < 0 THEN [thrown |-> None, length |-> idx - 1]
          ELSE CountRun(cmp, work, idx + 1, isDescending)

\* the binary search for the place of pivot among work[left..right-1]
RECURSIVE InsertionPoint(_, _, _, _, _)
InsertionPoint(cmp, work, pivot, left, right) ==
  IF left >= right THEN [thrown |-> None, at |-> left]
  ELSE LET mid == left + (right - left) \div 2
           call == cmp[pivot][work[mid]]
       IN IF IsSome(call.thrown) THEN [thrown |-> call.thrown, at |-> left]
          ELSE IF call.order < 0 THEN InsertionPoint(cmp, work, pivot, left, mid)
          ELSE InsertionPoint(cmp, work, pivot, mid + 1, right)

\* the elements from start on inserted one by one into the sorted part
RECURSIVE BinaryInsertionSort(_, _, _)
BinaryInsertionSort(cmp, work, start) ==
  IF start > Len(work) THEN [thrown |-> None, work |-> work]
  ELSE LET place == InsertionPoint(cmp, work, work[start], 1, start)
       IN IF IsSome(place.thrown) THEN [thrown |-> place.thrown, work |-> work]
          ELSE BinaryInsertionSort(cmp,
                 SubSeq(work, 1, place.at - 1) \o <<work[start]>>
                   \o SubSeq(work, place.at, start - 1)
                   \o SubSeq(work, start + 1, Len(work)),
                 start + 1)

\* what the sort throws, if it does, and else the sorted array
ArraySort(seq, cmp) ==
  LET n == Len(seq)
      work == [i \in 1..n |-> i]
  IN IF n < 2 THEN [thrown |-> None, sorted |-> seq]
     ELSE LET first == cmp[2][1]
              isDescending == first.order < 0
              run == CountRun(cmp, work, 3, isDescending)
              made == IF isDescending
                      THEN [i \in 1..n |-> IF i <= run.length THEN run.length + 1 - i ELSE i]
                      ELSE work
              done == BinaryInsertionSort(cmp, made, run.length + 1)
          IN IF IsSome(first.thrown) THEN [thrown |-> first.thrown, sorted |-> seq]
             ELSE IF IsSome(run.thrown) THEN [thrown |-> run.thrown, sorted |-> seq]
             ELSE IF IsSome(done.thrown) THEN [thrown |-> done.thrown, sorted |-> seq]
             ELSE [thrown |-> None, sorted |-> [p \in 1..n |-> seq[done.work[p]]]]

\* a comparator's result as the sort takes it: NaN as 0
order(v) == IF IsSome(v) THEN The(v) ELSE 0

\* ----------------------------------------------------- filterTransactions
Get(filters, key) == IF key \in DOMAIN filters THEN filters[key] ELSE None

\* `if (filters.search)`: undefined and '' are falsy
TruthyString(o) == IsSome(o) /\ Len(The(o)) > 0

\* if (filters.dateFrom) { if (transactionDate < fromDate) return false; }
\* a comparison with NaN is false
passesDateFrom(transaction, filters) ==
  LET dateFrom == Get(filters, "dateFrom")
      transactionDate == timeOf(transaction)
  IN ~(/\ IsSome(dateFrom)
       /\ IsSome(transactionDate)
       /\ The(transactionDate) < parseDay(The(dateFrom)))

\* if (filters.dateTo) { if (transactionDate > toDate) return false; }
passesDateTo(transaction, filters) ==
  LET dateTo == Get(filters, "dateTo")
      transactionDate == timeOf(transaction)
  IN ~(/\ IsSome(dateTo)
       /\ IsSome(transactionDate)
       /\ The(transactionDate) > parseDay(The(dateTo)))

\* the type test without its `filters.type &&` guard
passesTypeUnguarded(transaction, filters) ==
  LET type == Get(filters, "type")
  IN IsSome(type) /\ transaction.type = The(type)

\* if (filters.type && transaction.type !== filters.type) return false;
passesType(transaction, filters) ==
  LET type == Get(filters, "type")
  IN ~(IsSome(type) /\ transaction.type # The(type))

\* the minAmount test with its comparison turned round
passesMinAmountFlipped(transaction, filters) ==
  LET minAmount == Get(filters, "minAmount")
  IN ~(IsSome(minAmount) /\ transaction.amount > The(minAmount))

\* if (filters.minAmount !== undefined && transaction.amount < filters.minAmount) return false;
passesMinAmount(transaction, filters) ==
  LET minAmount == Get(filters, "minAmount")
  IN ~(IsSome(minAmount) /\ transaction.amount < The(minAmount))

\* if (filters.currency && transaction.currency !== filters.currency) return false;
passesCurrency(transaction, filters) ==
  LET currency == Get(filters, "currency")
  IN ~(IsSome(currency) /\ transaction.currency # The(currency))

\* if (filters.search) { ... if (!description.includes(term) && !id.includes(term)) return false; }
\* (a description that is a number has no toLowerCase: searchThrown)
passesSearch(transaction, filters) ==
  LET search == Get(filters, "search")
  IN ~(/\ TruthyString(search)
       /\ LET searchTerm == toLowerCase(The(search))
              description == IF /\ IsSome(transaction.description)
                                /\ The(transaction.description) # NumberDescription
                             THEN toLowerCase(The(transaction.description))
                             ELSE <<>>
              id == toLowerCase(transaction.id)
          IN ~includes(description, searchTerm) /\ ~includes(id, searchTerm))

\* transaction.description?.toLowerCase() called on a number
searchThrown(transaction, filters) ==
  IF /\ TruthyString(Get(filters, "search"))
     /\ IsSome(transaction.description)
     /\ The(transaction.description) = NumberDescription
  THEN Some("transaction.description?.toLowerCase is not a function")
  ELSE None

\* the callback letting a transaction through when any one test passes
matchesAny(transaction, filters) ==
  \/ passesDateFrom(transaction, filters)
  \/ passesDateTo(transaction, filters)
  \/ passesType(transaction, filters)
  \/ passesMinAmount(transaction, filters)
  \/ passesCurrency(transaction, filters)
  \/ passesSearch(transaction, filters)

\* the callback of transactions.filter
matches(transaction, filters) ==
  /\ passesDateFrom(transaction, filters)
  /\ passesDateTo(transaction, filters)
  /\ passesType(transaction, filters)
  /\ passesMinAmount(transaction, filters)
  /\ passesCurrency(transaction, filters)
  /\ passesSearch(transaction, filters)

\* what the callback throws, None when it returns: the search test is
\* reached when no test before it has returned false
callbackThrown(transaction, filters) ==
  IF /\ passesDateFrom(transaction, filters)
     /\ passesDateTo(transaction, filters)
     /\ passesType(transaction, filters)
     /\ passesMinAmount(transaction, filters)
     /\ passesCurrency(transaction, filters)
  THEN searchThrown(transaction, filters)
  ELSE None

\* what filterTransactions throws, None when it returns: a value that is no
\* array has no filter, and the callback's throw ends the call
filterThrown(transactions, filters) ==
  IF ~IsArray(transactions) THEN Some("transactions.filter is not a function")
  ELSE IF \E i \in 1..Len(transactions) : IsSome(callbackThrown(transactions[i], filters))
  THEN callbackThrown(transactions[CHOOSE i \in 1..Len(transactions) :
                                     IsSome(callbackThrown(transactions[i], filters))],
                      filters)
  ELSE None

\* what filterTransactions returns when it returns
filterTransactions(transactions, filters) ==
  IF IsSome(filterThrown(transactions, filters)) THEN <<>>
  ELSE SelectSeq(transactions, LAMBDA t : matches(t, filters))

\* ------------------------------------------------------- sortTransactions
\* the comparator's result, NaN when a date is missing
compareValue(a, b, sort) ==
  LET v == CASE sort.field = "date" -> difference(timeOf(a), timeOf(b))
             [] sort.field = "amount" -> Some(a.amount - b.amount)
             [] sort.field = "type" -> Some(localeCompare(a.type, b.type))
  IN IF sort.direction = "desc" THEN negated(v) ELSE v

\* what the comparator throws, None when it returns: a.type.localeCompare on a
\* type that is a number
compareThrown(a, b, sort) ==
  IF sort.field = "type" /\ a.type = NumberType
  THEN Some("a.type.localeCompare is not a function")
  ELSE None

\* the comparator of sortTransactions on every pair of a sequence
comparisons(sorted, sort) ==
  [j \in 1..Len(sorted) |-> [i \in 1..Len(sorted) |->
     LET a == sorted[j]  b == sorted[i]
     IN [thrown |-> compareThrown(a, b, sort), order |-> order(compareValue(a, b, sort))]]]

\* const sorted = [...transactions]; sorted.sort((a, b) => ...): what it
\* throws, if it does, and else the sorted copy
sortOutcome(transactions, sort) ==
  Only({ ArraySort(sorted, comparisons(sorted, sort)) : sorted \in {transactions} })

\* sortTransactions taking the descending order as the reversed ascending one
sortTransactionsReversing(transactions, sort) ==
  LET n == Len(transactions)
      asc == ArraySort(transactions,
                       comparisons(transactions, [sort EXCEPT !.direction = "asc"])).sorted
  IN IF sort.direction = "desc" THEN [p \in 1..n |-> asc[n + 1 - p]] ELSE asc

\* what sortTransactions returns when it returns
sortTransactions(transactions, sort) == sortOutcome(transactions, sort).sorted

\* --------------------------------------------------------- calculateStats
\* the comparator (a, b) => time(a) - time(b) on every pair of a sequence
byTime(copy) ==
  [j \in 1..Len(copy) |-> [i \in 1..Len(copy) |->
     LET a == copy[j]  b == copy[i]
     IN [thrown |-> None, order |-> order(difference(timeOf(a), timeOf(b)))]]]

\* the chronological sort with its comparator's operands swapped: newest first
sortedByDateDesc(transactions) ==
  Only({ ArraySort(copy, [j \in 1..Len(copy) |-> [i \in 1..Len(copy) |->
                            byTime(copy)[i][j]]]).sorted
       : copy \in {transactions} })

\* [...transactions].sort((a, b) => time(a) - time(b))
sortedByDate(transactions) ==
  Only({ ArraySort(copy, byTime(copy)).sorted : copy \in {transactions} })

\* the upsert storing a fresh count instead of existing.transactions + 1
upsertDayResetsCount(dailyData, key, balance) ==
  IF \E j \in 1..Len(dailyData) : dailyData[j].date = key
  THEN LET j == CHOOSE j \in 1..Len(dailyData) : dailyData[j].date = key
       IN [dailyData EXCEPT ![j] = [date |-> key, balance |-> balance, transactions |-> 1]]
  ELSE Append(dailyData, [date |-> key, balance |-> balance, transactions |-> 1])

\* the accumulator kept as a list that is pushed to, not a Map keyed by day
upsertDayAppends(dailyData, key, balance) ==
  Append(dailyData, [date |-> key, balance |-> balance, transactions |-> 1])

\* dailyData.set(dateKey, {balance, transactions: existing.transactions + 1});
\* a Map keeps its keys in insertion order
upsertDay(dailyData, key, balance) ==
  IF \E j \in 1..Len(dailyData) : dailyData[j].date = key
  THEN LET j == CHOOSE j \in 1..Len(dailyData) : dailyData[j].date = key
       IN [dailyData EXCEPT ![j] = [date |-> key, balance |-> balance,
                                    transactions |-> @.transactions + 1]]
  ELSE Append(dailyData, [date |-> key, balance |-> balance, transactions |-> 1])

\* transaction.date.split('T') on an entry without date or with a number
splitThrown(transaction) ==
  IF "date" \notin DOMAIN transaction
  THEN Some("Cannot read properties of undefined (reading 'split')")
  ELSE IF "number" \in DOMAIN transaction.date
  THEN Some("transaction.date.split is not a function")
  ELSE None

\* the body of sortedByDate.forEach: the switch adds the amount to the total
\* of the transaction's type and to or from runningBalance, each += and -= a
\* double addition; a type that is none of the three falls through it.  Then
\* the day is taken from the date, which can throw.
walkStep(acc, transaction) ==
  LET isDeposit == transaction.type = "deposit"
      isWithdraw == transaction.type = "withdraw"
      isTransfer == transaction.type = "transfer"
  IN IF IsSome(splitThrown(transaction))
     THEN [acc EXCEPT !.thrown = splitThrown(transaction)]
     ELSE Only({
       Only({ [totalDeposits |-> IF isDeposit THEN plus(acc.totalDeposits, amount)
                                 ELSE acc.totalDeposits,
               totalWithdraws |-> IF isWithdraw THEN plus(acc.totalWithdraws, amount)
                                  ELSE acc.totalWithdraws,
               totalTransfers |-> IF isTransfer THEN plus(acc.totalTransfers, amount)
                                  ELSE acc.totalTransfers,
               runningBalance |-> runningBalance,
               dailyData |-> upsertDay(acc.dailyData, dateKey(transaction.date),
                                       runningBalance),
               thrown |-> None]
            : runningBalance \in {IF isDeposit THEN plus(acc.runningBalance, amount)
                                  ELSE IF isWithdraw THEN minus(acc.runningBalance, amount)
                                  ELSE acc.runningBalance} })
       : amount \in {Number(transaction.amount)} })

\* sortedByDate.forEach, from the i-th element on; a throw ends it
RECURSIVE walk(_, _, _)
walk(sorted, i, acc) ==
  IF i > Len(sorted) \/ IsSome(acc.thrown) THEN acc
  ELSE Only({walk(sorted, i + 1, next) : next \in {walkStep(acc, sorted[i])}})

\* what calculateStats throws, if it does, and else the stats it returns
statsOutcome(transactions) ==
  Only({
    Only({ [thrown |-> acc.thrown,
            stats |->
              [totalTransactions |-> Len(input),
               totalDeposits |-> acc.totalDeposits,
               totalWithdraws |-> acc.totalWithdraws,
               totalTransfers |-> acc.totalTransfers,
               currentBalance |-> acc.runningBalance,
               balanceHistory |->
                 ArraySort(acc.dailyData,
                           [j \in 1..Len(acc.dailyData) |-> [i \in 1..Len(acc.dailyData) |->
                              LET a == acc.dailyData[j]  b == acc.dailyData[i]
                              IN [thrown |-> None,
                                  order |-> parseDay(a.date) - parseDay(b.date)]]]).sorted]]
         : acc \in {walk(sortedByDate(input), 1,
                         [totalDeposits |-> Zero, totalWithdraws |-> Zero,
                          totalTransfers |-> Zero, runningBalance |-> Zero,
                          dailyData |-> <<>>, thrown |-> None])} })
    : input \in {transactions} })

\* what calculateStats returns when it returns
calculateStats(transactions) == statsOutcome(transactions).stats

\* ------------------------------------------------------------ data source
\* Descriptions the generator attaches (DESCRIPTIONS), shortened to tokens.
DescPay == <<"P", "a", "y">>
DescTap == <<"T", "a", "p">>

Transaction(index, type, amount, currency, day, tick, description) ==
  [id |-> IdOf(index), type |-> type, amount |-> amount, currency |-> currency,
   date |-> [day |-> day, tick |-> tick], description |-> description]

\* What one run of the generator draws from Math.random, entry by entry: the
\* transaction generateTransaction(index, date) returns for index 1, 2, ...
\* Two runs stand for all: the second with three entries at one timestamp
\* whose amounts 0.1, 0.2 and 0.3 add up differently in different orders.
Draws == {1, 2}

Drawn(draw) ==
  IF draw = 1
  THEN << Transaction(1, "transfer", 50, "BTC", 0, 1, Some(DescTap)),
          Transaction(2, "deposit", 50, "BTC", 1, 1, Some(DescPay)),
          Transaction(3, "deposit", 10, "BTC", 0, 1, Some(DescPay)),
          Transaction(4, "withdraw", 10, "ETH", 1, 0, Some(DescTap)) >>
  ELSE << Transaction(1, "deposit", 10, "BTC", 0, 1, Some(DescPay)),
          Transaction(2, "deposit", 20, "ETH", 0, 1, Some(DescTap)),
          Transaction(3, "withdraw", 30, "BTC", 0, 1, Some(DescPay)),
          Transaction(4, "deposit", 50, "BTC", 1, 0, Some(DescTap)) >>

\* the entries pushed for i = 1..count, then
\* transactions.sort((a, b) => time(b) - time(a)): newest first, entries with
\* equal timestamps in generation order
Ledgers ==
  [count \in 0..Len(Drawn(1)) |-> [draw \in Draws |->
     Only({ ArraySort(transactions, [j \in 1..count |-> [i \in 1..count |->
              LET a == transactions[j]  b == transactions[i]
              IN [thrown |-> None, order |-> getTime(b.date) - getTime(a.date)]]]).sorted
          : transactions \in {SubSeq(Drawn(draw), 1, count)} })]]

\* the ledger of one run, for the counts up to the number of entries drawn
generateTransactions(count, draw) == Ledgers[count][draw]

\* What JSON.parse makes of the item 'mockTransactions': an array, a string,
\* an object that has a length and nothing else, or nothing (the text is no
\* JSON and the parse throws).  The JSON text of an array of transactions as
\* generateTransactions returns it parses back to that array.
ArrayOf(items) == [kind |-> "array", items |-> items, length |-> Len(items)]
StringOf(chars) ==
  [kind |-> "string", items |-> [i \in 1..Len(chars) |-> [char |-> chars[i]]],
   length |-> Len(chars)]
ObjectOf(length) == [kind |-> "object", items |-> <<>>, length |-> length]
NotJson == [kind |-> "invalid", items |-> <<>>, length |-> 0]

\* The localStorage items 'mockTransactions' (None when it is not there) and
\* 'mockTransactionsTimestamp' (there or not).
Items(content, timestamp) ==
  [mockTransactions |-> content, mockTransactionsTimestamp |-> timestamp]
NoItems == Items(None, FALSE)

\* how the two setItem calls of cacheTransactions go: both store, or one of
\* them throws (QuotaExceededError), which the catch swallows
WriteOutcomes == {"stored", "first setItem throws", "second setItem throws"}

\* try { setItem('mockTransactions', ...); setItem('mockTransactionsTimestamp', ...) }
\* catch { console.warn }
cacheTransactions(storage, transactions, write) ==
  CASE write = "stored" -> Items(Some(ArrayOf(transactions)), TRUE)
    [] write = "first setItem throws" -> storage
    [] write = "second setItem throws" ->
         [storage EXCEPT !.mockTransactions = Some(ArrayOf(transactions))]

\* expired: cacheAge > maxAge (24 hours), on which both items are removed
loadCachedTransactions(storage, expired) ==
  IF ~IsSome(storage.mockTransactions) \/ ~storage.mockTransactionsTimestamp
  THEN [cached |-> None, storage |-> storage]
  ELSE IF expired THEN [cached |-> None, storage |-> NoItems]
  ELSE IF The(storage.mockTransactions).kind = "invalid"
  THEN [cached |-> None, storage |-> storage]
  ELSE [cached |-> storage.mockTransactions, storage |-> storage]

\* what getTransactions throws, if it does, else the transactions returned,
\* and the storage left behind
getTransactions(count, storage, expired, draw, write) ==
  LET read == loadCachedTransactions(storage, expired)
  IN IF IsSome(read.cached) /\ The(read.cached).length >= count
     THEN LET cached == The(read.cached)
          IN IF cached.kind = "object"
             THEN [thrown |-> Some("cached.slice is not a function"),
                   transactions |-> <<>>,
                   storage |-> read.storage]
             ELSE [thrown |-> None,
                   transactions |-> SubSeq(cached.items, 1, count),
                   storage |-> read.storage]
     ELSE LET transactions == generateTransactions(count, draw)
          IN [thrown |-> None,
              transactions |-> transactions,
              storage |-> cacheTransactions(read.storage, transactions, write)]

\* the ledger a full run of the first draw leaves in the cache
CachedLedger == generateTransactions(Len(Drawn(1)), 1)

\* the counts loadTransactions is called with
Counts == {2, Len(CachedLedger)}

\* Content of the item 'mockTransactions' that cacheTransactions never
\* writes, and that loadCachedTransactions would hand on as parsed: an entry
\* whose type, description or date is a number, an entry without date, a
\* string, an object with a length, a text that is no JSON.  No state of the
\* store's own specifications starts with it; it is the cache of LiveSpec,
\* where what holds of it holds of the program's own cache as well.
DamagedContents ==
  { ArrayOf([CachedLedger EXCEPT ![2] = [CachedLedger[2] EXCEPT !.type = NumberType]]),
    ArrayOf([CachedLedger EXCEPT ![1] = [CachedLedger[1] EXCEPT !.description = Some(NumberDescription)]]),
    ArrayOf([CachedLedger EXCEPT ![2] = [f \in DOMAIN CachedLedger[2] \ {"date"} |-> CachedLedger[2][f]]]),
    ArrayOf([CachedLedger EXCEPT ![1] = [CachedLedger[1] EXCEPT !.date = NumberDate]]),
    StringOf(<<"a", "b", "c", "d", "e", "f">>),
    ObjectOf(5),
    NotJson }

\* what localStorage holds when the application starts, left there by the
\* getTransactions calls of earlier visits: nothing (no visit yet, the first
\* setItem threw, or an expired cache was removed), or a generated ledger,
\* with its timestamp or, when the second setItem threw on a storage without
\* one, with none
InitialStorages ==
  {NoItems} \cup {Items(Some(ArrayOf(generateTransactions(count, draw))), timestamp) :
                    count \in Counts, draw \in Draws, timestamp \in BOOLEAN}

\* ------------------------------------------------------------------ state
VARIABLES
  allTransactions,        \* the canonical set
  filteredTransactions,   \* the view
  loadingState,
  error,
  filters,
  sort,
  stats,
  inFlight,               \* loadTransactions calls suspended at their await
  localStorage,           \* the cache items of the data source
  fn, args, ret           \* a helper function applied on its own

storeVars == <<allTransactions, filteredTransactions, loadingState, error,
               filters, sort, stats, inFlight, localStorage>>
callVars == <<fn, args, ret>>
vars == <<allTransactions, filteredTransactions, loadingState, error,
          filters, sort, stats, inFlight, localStorage, fn, args, ret>>

EmptyFilters == [k \in {} |-> None]

\* get(), and what the handler at work has thrown (nothing yet)
Current ==
  [allTransactions |-> allTransactions, filteredTransactions |-> filteredTransactions,
   loadingState |-> loadingState, error |-> error, filters |-> filters,
   sort |-> sort, stats |-> stats, thrown |-> None]

\* the state the store holds when a handler is over, run to its end or left
\* by a throw
Commit(s) ==
  \E state \in {s} :
    /\ allTransactions' = state.allTransactions
    /\ filteredTransactions' = state.filteredTransactions
    /\ loadingState' = state.loadingState
    /\ error' = state.error
    /\ filters' = state.filters
    /\ sort' = state.sort
    /\ stats' = state.stats

\* _applyFiltersAndSort setting the filtered transactions as the view without
\* sorting them
_applyFiltersUnsorted(s) ==
  IF IsSome(s.thrown) THEN s
  ELSE Only({ IF IsSome(thrown) THEN [s EXCEPT !.thrown = thrown]
              ELSE [s EXCEPT !.filteredTransactions =
                               filterTransactions(s.allTransactions, s.filters)]
            : thrown \in {filterThrown(s.allTransactions, s.filters)} })

\* const filtered = filterTransactions(...); const sorted = sortTransactions(...);
\* set({ filteredTransactions: sorted }); not reached after a throw, and
\* left by the throw of either call before the set
_applyFiltersAndSort(s) ==
  IF IsSome(s.thrown) THEN s
  ELSE \* bound once: filterThrown, then the sort of what the filter returns
    Only({ IF IsSome(thrown) THEN [s EXCEPT !.thrown = thrown]
           ELSE Only({ IF IsSome(sorted.thrown) THEN [s EXCEPT !.thrown = sorted.thrown]
                       ELSE [s EXCEPT !.filteredTransactions = sorted.sorted]
                     : sorted \in {sortOutcome(
                                     filterTransactions(s.allTransactions, s.filters),
                                     s.sort)} })
         : thrown \in {filterThrown(s.allTransactions, s.filters)} })

\* const stats = calculateStats(filteredTransactions); set({ stats }); not
\* reached after a throw, and left by the throw of calculateStats
_calculateStats(s) ==
  IF IsSome(s.thrown) THEN s
  ELSE Only({ IF IsSome(outcome.thrown) THEN [s EXCEPT !.thrown = outcome.thrown]
              ELSE [s EXCEPT !.stats = Some(outcome.stats)]
            : outcome \in {statsOutcome(s.filteredTransactions)} })

NoCall == /\ fn = "none" /\ args = None /\ ret = None

StoreInit ==
  /\ allTransactions = <<>>
  /\ filteredTransactions = <<>>
  /\ loadingState = "idle"
  /\ error = None
  /\ filters = EmptyFilters
  /\ sort = [field |-> "date", direction |-> "desc"]
  /\ stats = None
  /\ inFlight = 0

Init == StoreInit /\ localStorage \in InitialStorages /\ NoCall

\* loadTransactions up to its await, the error message left in place
loadBegunKeepsError(s) == [s EXCEPT !.loadingState = "loading"]

\* loadTransactions up to its await
loadBegun(s) == [s EXCEPT !.loadingState = "loading", !.error = None]

loadTransactions ==
  /\ inFlight < MaxInFlight
  /\ Commit(loadBegun(Current))
  /\ inFlight' = inFlight + 1
  /\ UNCHANGED <<localStorage, fn, args, ret>>

\* what the reads of the cache and of Math.random and the writes of the cache
\* can come to when a suspended load goes on: getTransactions(count) for the
\* count it was called with, the cache expired or not, either draw, the
\* setItem calls storing or throwing
Reads ==
  {getTransactions(count, localStorage, expired, draw, write) :
     count \in Counts, expired \in BOOLEAN, draw \in Draws, write \in WriteOutcomes}

\* what getTransactions throws or returns in these reads, and the storages a
\* read that throws or returns this can leave behind
Returns == {[thrown |-> read.thrown, transactions |-> read.transactions] : read \in Reads}
StoragesLeft(returned) ==
  {read.storage : read \in {r \in Reads : /\ r.thrown = returned.thrown
                                          /\ r.transactions = returned.transactions}}

\* the set call of the success path putting the store back to idle
loadedIdle(s, transactions) ==
  [s EXCEPT !.allTransactions = transactions, !.loadingState = "idle"]

\* the set call of the success path with the status of the catch
loadedAsError(s, transactions) ==
  [s EXCEPT !.allTransactions = transactions, !.loadingState = "error"]

\* set({ allTransactions: transactions, loadingState: 'success' })
loaded(s, transactions) ==
  [s EXCEPT !.allTransactions = transactions, !.loadingState = "success"]

\* the try block deriving the view with the filter and sort specifications
\* of the initial state instead of those it finds
loadResolvedInitialSpecs(s, read) ==
  IF IsSome(read.thrown) THEN [s EXCEPT !.thrown = read.thrown]
  ELSE [_calculateStats(_applyFiltersAndSort(
           [loaded(s, read.transactions) EXCEPT
              !.filters = EmptyFilters,
              !.sort = [field |-> "date", direction |-> "desc"]]))
          EXCEPT !.filters = s.filters, !.sort = s.sort]

\* loadTransactions after its await, the try block to its end or to the
\* throw that leaves it: getTransactions, the set, _applyFiltersAndSort,
\* _calculateStats
loadResolved(s, read) ==
  IF IsSome(read.thrown) THEN [s EXCEPT !.thrown = read.thrown]
  ELSE _calculateStats(_applyFiltersAndSort(loaded(s, read.transactions)))

\* the catch: set({ loadingState: 'error', error: error.message })
loadRejected(s) ==
  [s EXCEPT !.loadingState = "error", !.error = s.thrown]

\* a suspended load goes on from its await: the try block runs to its end,
\* or a call of it throws and the catch takes over, with the set calls made
\* before the throw in place
loadResumes ==
  /\ inFlight > 0
  /\ \E read \in Returns :
       \E resolved \in {loadResolved(Current, read)} :
         /\ Commit(IF IsSome(resolved.thrown) THEN loadRejected(resolved) ELSE resolved)
         /\ localStorage' \in StoragesLeft(read)
  /\ inFlight' = inFlight - 1
  /\ UNCHANGED callVars

\* the values setFilters is called with for each field: a type or undefined
\* (the select put back to "all"), a minAmount positive, zero or negative,
\* and a search term; the date and currency fields are exercised on
\* filterTransactions on its own and through the form
FilterValues(key) ==
  CASE key = "dateFrom" -> {}
    [] key = "dateTo" -> {}
    [] key = "type" -> {None, Some("deposit")}
    [] key = "minAmount" -> {Some(-5), Some(0), Some(50)}
    [] key = "currency" -> {}
    [] key = "search" -> {Some(<<"p", "A">>)}

\* the partial filter objects passed to setFilters
Partials == UNION {{k :> v : v \in FilterValues(k)} : k \in FilterKeys}

\* the new partial taken as the whole filter specification
updatedFiltersReplaces(currentFilters, newFilters) == newFilters

\* { ...currentFilters, ...newFilters }
updatedFilters(currentFilters, newFilters) == newFilters @@ currentFilters

setFiltersTo(s, newFilters) ==
  _calculateStats(_applyFiltersAndSort(
    [s EXCEPT !.filters = updatedFilters(s.filters, newFilters)]))

setFilters ==
  /\ \E newFilters \in Partials :
       /\ Cardinality(DOMAIN updatedFilters(filters, newFilters)) <= MaxFilterKeys
       /\ Commit(setFiltersTo(Current, newFilters))
  /\ UNCHANGED <<inFlight, localStorage, fn, args, ret>>

\* clearFilters without its recomputation calls
filtersClearedStale(s) == [s EXCEPT !.filters = EmptyFilters]

filtersCleared(s) ==
  _calculateStats(_applyFiltersAndSort([s EXCEPT !.filters = EmptyFilters]))

clearFilters ==
  /\ Commit(filtersCleared(Current))
  /\ UNCHANGED <<inFlight, localStorage, fn, args, ret>>

\* setSort without its recomputation call
setSortToSpecOnly(s, newSort) == [s EXCEPT !.sort = newSort]

setSortTo(s, newSort) == _applyFiltersAndSort([s EXCEPT !.sort = newSort])

setSort ==
  /\ \E newSort \in Sorts : Commit(setSortTo(Current, newSort))
  /\ UNCHANGED <<inFlight, localStorage, fn, args, ret>>

Next ==
  \/ loadTransactions
  \/ loadResumes
  \/ setFilters
  \/ clearFilters
  \/ setSort

Spec == Init /\ [][Next]_vars

\* a step in which a suspended load settles, one way or the other: the steps
\* of loadResumes, the one action that takes a call out of inFlight
loadSettles == inFlight' = inFlight - 1

\* The timer a suspended load awaits (setTimeout, 1000 ms) always fires, so a
\* suspended load goes on: weak fairness of loadResumes, written out.
\* WF_vars(A) is []<>~ENABLED <<A>>_vars \/ []<><<A>>_vars, and loadResumes is
\* enabled exactly when inFlight > 0.
\* The cache outlives the page and is read unvalidated, so here it starts with
\* any content, the program's own or not: a superset of the behaviours of
\* Spec, and the one specification in which a load fails.
AnyCacheInit ==
  /\ StoreInit
  /\ localStorage \in InitialStorages
                      \cup {Items(Some(content), TRUE) : content \in DamagedContents}
  /\ NoCall

AnyCacheSpec == AnyCacheInit /\ [][Next]_vars

LiveSpec == AnyCacheSpec /\ ([]<>(inFlight = 0) \/ []<><<loadSettles>>_vars)

\* ------------------------------------------- calculateStats on its own
\* The inputs: every sequence of at most MaxLen transactions, each of any
\* type at any of three timestamps (two on one day, one on the next); the
\* amounts 0.1, 0.2, 0.3 and 0.5 by position (calculateStats reads no other
\* field); ids follow the position in the sequence.
StatsDates == {[day |-> 0, tick |-> 0], [day |-> 0, tick |-> 1], [day |-> 1, tick |-> 0]}
StatsAmount(i) == CASE i = 1 -> 10 [] i = 2 -> 20 [] i = 3 -> 30 [] OTHER -> 50

StatsInputs ==
  UNION {{[i \in 1..n |-> [id |-> IdOf(i), type |-> type[i], amount |-> StatsAmount(i),
                           currency |-> "BTC", date |-> date[i], description |-> None]] :
            type \in [1..n -> TransactionTypes], date \in [1..n -> StatsDates]} :
         n \in 0..MaxLen}

StatsInit ==
  /\ StoreInit
  /\ localStorage = NoItems
  /\ fn = "calculateStats"
  /\ args \in {Some(transactions) : transactions \in StatsInputs}
  /\ ret = None

applyCalculateStats ==
  /\ fn = "calculateStats"
  /\ ret = None
  /\ ret' = Some(calculateStats(The(args)))
  /\ UNCHANGED <<storeVars, fn, args>>

StatsNext == applyCalculateStats

StatsSpec == StatsInit /\ [][StatsNext]_vars

\* --------------------------------------- filterTransactions on its own
\* The inputs: every single transaction over the sets below, and every
\* selection of at most MaxPick distinct entries of the cached ledger in any
\* order; with every filter specification over FilterChoices.
FilterSingles ==
  {<<[id |-> IdOf(1), type |-> type, amount |-> amount, currency |-> currency,
      date |-> date, description |-> description]>> :
     type \in {"deposit", "withdraw"}, amount \in {0, 50}, currency \in {"BTC", "ETH"},
     date \in IsoDates, description \in {None, Some(DescPay), Some(DescTap)}}

Picks ==
  UNION {{[i \in 1..n |-> CachedLedger[pick[i]]] :
            pick \in {f \in [1..n -> 1..Len(CachedLedger)] :
                        \A i, j \in 1..n : i # j => f[i] # f[j]}} :
         n \in 0..MaxPick}

FilterChoices(key) ==
  CASE key = "dateFrom" -> {None, Some(1)}
    [] key = "dateTo" -> {None, Some(1)}
    [] key = "type" -> {None, Some("deposit")}
    [] key = "minAmount" -> {None, Some(-5), Some(0), Some(50)}
    [] key = "currency" -> {None, Some("BTC")}
    [] key = "search" -> {None, Some(<<>>), Some(<<"p", "A">>), Some(<<"0", "3">>)}

FilterSpecs ==
  {[dateFrom |-> dateFrom, dateTo |-> dateTo, type |-> type, minAmount |-> minAmount,
    currency |-> currency, search |-> search] :
     dateFrom \in FilterChoices("dateFrom"), dateTo \in FilterChoices("dateTo"),
     type \in FilterChoices("type"), minAmount \in FilterChoices("minAmount"),
     currency \in FilterChoices("currency"), search \in FilterChoices("search")}

FilterInit ==
  /\ StoreInit
  /\ localStorage = NoItems
  /\ fn = "filterTransactions"
  /\ args \in {Some([transactions |-> transactions, filters |-> f]) :
                 transactions \in FilterSingles \cup Picks, f \in FilterSpecs}
  /\ ret = None

applyFilterTransactions ==
  /\ fn = "filterTransactions"
  /\ ret = None
  /\ ret' = Some(filterTransactions(The(args).transactions, The(args).filters))
  /\ UNCHANGED <<storeVars, fn, args>>

FilterNext == applyFilterTransactions

FilterSpec == FilterInit /\ [][FilterNext]_vars

\* ----------------------------------------- sortTransactions on its own
\* The inputs: every sequence of at most MaxLen transactions of four kinds,
\* any two of which tie on exactly one sort field, with every sort
\* specification; ids follow the position in the sequence.
SortKinds ==
  { [type |-> "deposit", amount |-> 50, date |-> [day |-> 0, tick |-> 0]],
    [type |-> "withdraw", amount |-> 50, date |-> [day |-> 1, tick |-> 0]],
    [type |-> "deposit", amount |-> 10, date |-> [day |-> 1, tick |-> 0]],
    [type |-> "withdraw", amount |-> 10, date |-> [day |-> 0, tick |-> 0]] }

SortInputs ==
  UNION {{[i \in 1..n |-> [id |-> IdOf(i), type |-> kind[i].type, amount |-> kind[i].amount,
                           currency |-> "BTC", date |-> kind[i].date, description |-> None]] :
            kind \in [1..n -> SortKinds]} :
         n \in 0..MaxLen}

SortInit ==
  /\ StoreInit
  /\ localStorage = NoItems
  /\ fn = "sortTransactions"
  /\ args \in {Some([transactions |-> transactions, sort |-> s]) :
                 transactions \in SortInputs, s \in Sorts}
  /\ ret = None

applySortTransactions ==
  /\ fn = "sortTransactions"
  /\ ret = None
  /\ ret' = Some(sortTransactions(The(args).transactions, The(args).sort))
  /\ UNCHANGED <<storeVars, fn, args>>

SortNext == applySortTransactions

SortSpec == SortInit /\ [][SortNext]_vars

\* ------------------------------------------ the store, set call by set call
\* zustand's set replaces the state and notifies the subscribers before it
\* returns, so every set call of a handler publishes a state.  Here fn is the
\* handler whose body is running ("none" between handlers) and args the
\* internal calls it has yet to make, each of which ends in a set of its own
\* unless it throws.  A handler runs to completion before the next event is
\* taken.  A call that throws ends its handler: loadTransactions in the set
\* call of its catch, setFilters, clearFilters and setSort with the set calls
\* made so far and nothing more (no call throws on a cache the program wrote).
ApplyThenStats == <<"_applyFiltersAndSort", "_calculateStats">>

Running(handler, calls) == fn' = handler /\ args' = calls /\ ret' = ret

\* the internal call the running handler has come to, made on the state as
\* it is
Called ==
  CASE Head(args) = "_applyFiltersAndSort" -> _applyFiltersAndSort(Current)
    [] Head(args) = "_calculateStats" -> _calculateStats(Current)

\* set({ loadingState: 'loading', error: null }), then the await
loadingPublished == fn = "none" /\ loadTransactions

\* the timer of a suspended load fires: getTransactions(count), then
\* set({ allTransactions: transactions, loadingState: 'success' }), the
\* handler going on to its internal calls; or getTransactions throws and the
\* catch publishes set({ loadingState: 'error', error: error.message }), the
\* handler over
loadedPublished ==
  /\ fn = "none"
  /\ inFlight > 0
  /\ \E read \in Reads :
       /\ IF IsSome(read.thrown)
          THEN /\ Commit(loadRejected([Current EXCEPT !.thrown = read.thrown]))
               /\ Running("none", None)
          ELSE /\ Commit(loaded(Current, read.transactions))
               /\ Running("loadTransactions", ApplyThenStats)
       /\ localStorage' = read.storage
  /\ inFlight' = inFlight - 1

\* set({ filters: updatedFilters })
filtersPublished ==
  /\ fn = "none"
  /\ \E newFilters \in Partials :
       /\ Cardinality(DOMAIN updatedFilters(filters, newFilters)) <= MaxFilterKeys
       /\ Commit([Current EXCEPT !.filters = updatedFilters(filters, newFilters)])
  /\ Running("setFilters", ApplyThenStats)
  /\ UNCHANGED <<inFlight, localStorage>>

\* set({ filters: {} })
clearedPublished ==
  /\ fn = "none"
  /\ Commit([Current EXCEPT !.filters = EmptyFilters])
  /\ Running("clearFilters", ApplyThenStats)
  /\ UNCHANGED <<inFlight, localStorage>>

\* set({ sort })
sortPublished ==
  /\ fn = "none"
  /\ \E newSort \in Sorts : Commit([Current EXCEPT !.sort = newSort])
  /\ Running("setSort", <<"_applyFiltersAndSort">>)
  /\ UNCHANGED <<inFlight, localStorage>>

\* the handler goes on to its next internal call, or returns
Returning(calls) ==
  /\ fn' = IF calls = <<>> THEN "none" ELSE fn
  /\ args' = calls
  /\ ret' = ret

\* get()._applyFiltersAndSort(): set({ filteredTransactions: filtered }), after which the
\* handler goes on; or the call throws before its set, which the catch of
\* loadTransactions answers with set({ loadingState: 'error', error: ... })
\* and which leaves setFilters, clearFilters and setSort, nothing published
viewPublished ==
  /\ fn # "none"
  /\ Head(args) = "_applyFiltersAndSort"
  /\ \E called \in {Called} :
       IF IsSome(called.thrown)
       THEN /\ Commit(IF fn = "loadTransactions" THEN loadRejected(called) ELSE called)
            /\ Running("none", None)
       ELSE /\ Commit(called)
            /\ Returning(Tail(args))
  /\ UNCHANGED <<inFlight, localStorage>>

\* get()._calculateStats(): set({ stats }), after which the
\* handler goes on; or the call throws before its set, which the catch of
\* loadTransactions answers with set({ loadingState: 'error', error: ... })
\* and which leaves setFilters, clearFilters and setSort, nothing published
statsPublished ==
  /\ fn # "none"
  /\ Head(args) = "_calculateStats"
  /\ \E called \in {Called} :
       IF IsSome(called.thrown)
       THEN /\ Commit(IF fn = "loadTransactions" THEN loadRejected(called) ELSE called)
            /\ Running("none", None)
       ELSE /\ Commit(called)
            /\ Returning(Tail(args))
  /\ UNCHANGED <<inFlight, localStorage>>

SetNext ==
  \/ loadingPublished
  \/ loadedPublished
  \/ filtersPublished
  \/ clearedPublished
  \/ sortPublished
  \/ viewPublished
  \/ statsPublished

SetSpec == Init /\ [][SetNext]_vars

\* ------------------------------------- the TransactionFilters component
\* The filter form on the store: the search and minimum-amount inputs with
\* their debounced updates, the date inputs, the quick-date buttons, the
\* type and currency selects and the reset button; with the loads the
\* application requests, one when it mounts and one for each click on the
\* retry button of a failed load.  Here fn names the mounted component, args is the
\* timer debouncedSearch holds (the value it will pass on; None when none is
\* pending) and ret the timer debouncedMinAmount holds.  The inputs' own text
\* (searchValue, minAmountValue) is display state and is left out.
SearchTexts == {<<>>, <<"p", "A">>}
AmountTexts == {<<>>, <<"0">>, <<".", "5">>, <<"-", "5">>}
TypeOptions == {None, Some("deposit")}
\* the value of a date input: '' (None) or a day
DateValues == {None, Some(1)}
\* new Date(), as the day toISOString gives (the UTC date)
Today == 1
\* the quick-date buttons
QuickDays == {7}

DigitValue(c) == CHOOSE i \in 0..9 : DigitChar(i) = c

RECURSIVE digitsValue(_)
digitsValue(text) ==
  IF text = <<>> THEN 0
  ELSE digitsValue(SubSeq(text, 1, Len(text) - 1)) * 10 + DigitValue(text[Len(text)])

\* parseFloat on an optional minus sign, digits and an optional point with
\* one or two digits, as hundredths; None is NaN
parseFloat(text) ==
  LET negative == text # <<>> /\ text[1] = "-"
      body == IF negative THEN Tail(text) ELSE text
      point == IF \E i \in 1..Len(body) : body[i] = "."
               THEN CHOOSE i \in 1..Len(body) : body[i] = "."
               ELSE Len(body) + 1
      whole == SubSeq(body, 1, point - 1)
      fraction == SubSeq(body, point + 1, Len(body))
      hundredths == digitsValue(whole) * 100
                      + (IF Len(fraction) = 1 THEN digitsValue(fraction) * 10
                         ELSE digitsValue(fraction))
  IN IF whole = <<>> /\ fraction = <<>> THEN None
     ELSE Some(IF negative THEN 0 - hundredths ELSE hundredths)

\* useAvailableCurrencies: the currencies of the canonical set
availableCurrencies ==
  {allTransactions[i].currency : i \in 1..Len(allTransactions)}

\* Object.keys(filters).length > 0
hasActiveFilters(f) == Cardinality(DOMAIN f) > 0

isDisabled == loadingState = "loading"

\* setFilters(newFilters) as a handler of the form calls it
callSetFilters(newFilters) ==
  /\ Cardinality(DOMAIN updatedFilters(filters, newFilters)) <= MaxFilterKeys
  /\ Commit(setFiltersTo(Current, newFilters))

FormInit ==
  /\ StoreInit
  /\ localStorage \in InitialStorages
  /\ fn = "TransactionFilters"
  /\ args = None
  /\ ret = None

\* useEffect(() => { loadTransactions(10000); }, ...): the load requested when
\* the application mounts
appMounted == loadingState = "idle" /\ loadTransactions

\* the retry button of the error message, rendered when hasError && error:
\* onClick={() => loadTransactions()}
retryClicked == loadingState = "error" /\ IsSome(error) /\ loadTransactions

\* the loads the application requests: the retry button is rendered in the
\* error state only (no load ends there on a cache the program wrote)
loadRequestedByApp == IF loadingState = "error" THEN retryClicked ELSE appMounted

\* debounced(value): clearTimeout(timeout); timeout = setTimeout(...)
handleSearchChange ==
  /\ ~isDisabled
  /\ \E value \in SearchTexts : args' = Some(value)
  /\ UNCHANGED <<storeVars, fn, ret>>

handleMinAmountChange ==
  /\ ~isDisabled
  /\ \E value \in AmountTexts : ret' = Some(value)
  /\ UNCHANGED <<storeVars, fn, args>>

\* the 300 ms timer fires: setFilters({ search: value || undefined })
debouncedSearch ==
  /\ IsSome(args)
  /\ LET value == The(args)
     IN callSetFilters([k \in {"search"} |-> IF value = <<>> THEN None ELSE Some(value)])
  /\ args' = None
  /\ UNCHANGED <<inFlight, localStorage, fn, ret>>

\* the 500 ms timer fires:
\* setFilters({ minAmount: isNaN(numValue) || numValue <= 0 ? undefined : numValue })
debouncedMinAmount ==
  /\ IsSome(ret)
  /\ LET numValue == parseFloat(The(ret))
     IN callSetFilters([k \in {"minAmount"} |->
                          IF ~IsSome(numValue) \/ The(numValue) <= 0 THEN None ELSE numValue])
  /\ ret' = None
  /\ UNCHANGED <<inFlight, localStorage, fn, args>>

\* setFilters({ dateFrom: value || undefined })
handleDateFromChange ==
  /\ ~isDisabled
  /\ \E value \in DateValues : callSetFilters([k \in {"dateFrom"} |-> value])
  /\ UNCHANGED <<inFlight, localStorage, fn, args, ret>>

\* setFilters({ dateTo: value || undefined })
handleDateToChange ==
  /\ ~isDisabled
  /\ \E value \in DateValues : callSetFilters([k \in {"dateTo"} |-> value])
  /\ UNCHANGED <<inFlight, localStorage, fn, args, ret>>

\* setFilters({ type: value ? value : undefined })
handleTypeChange ==
  /\ ~isDisabled
  /\ \E value \in TypeOptions : callSetFilters([k \in {"type"} |-> value])
  /\ UNCHANGED <<inFlight, localStorage, fn, args, ret>>

\* setFilters({ currency: value ? value : undefined }), the options being
\* '' and the available currencies
handleCurrencyChange ==
  /\ ~isDisabled
  /\ \E value \in {None} \cup {Some(currency) : currency \in availableCurrencies} :
       callSetFilters([k \in {"currency"} |-> value])
  /\ UNCHANGED <<inFlight, localStorage, fn, args, ret>>

\* fromDate.setDate(today.getDate() - days) goes back `days` calendar days in
\* local time, and both dates are then rendered in UTC
\* (toISOString().split('T')[0]): setFilters({ dateFrom, dateTo }), both keys
\* in one call.  When the offset of the local time zone changes between the
\* two dates (daylight saving) and the click is within that change of UTC
\* midnight, the UTC date of fromDate is a day later or earlier than `days`
\* before that of today.
handleQuickDateFilter ==
  /\ ~isDisabled
  /\ \E days \in QuickDays, offsetChange \in {-1, 0, 1} :
       callSetFilters([k \in {"dateFrom", "dateTo"} |->
                         IF k = "dateFrom" THEN Some(Today - days + offsetChange)
                         ELSE Some(Today)])
  /\ UNCHANGED <<inFlight, localStorage, fn, args, ret>>

\* the reset button, rendered when hasActiveFilters: onClick={clearFilters}
clearClicked ==
  /\ hasActiveFilters(filters)
  /\ ~isDisabled
  /\ Commit(filtersCleared(Current))
  /\ UNCHANGED <<inFlight, localStorage, fn, args, ret>>

FormNext ==
  \/ loadRequestedByApp
  \/ loadResumes
  \/ handleSearchChange
  \/ handleMinAmountChange
  \/ debouncedSearch
  \/ debouncedMinAmount
  \/ handleDateFromChange
  \/ handleDateToChange
  \/ handleTypeChange
  \/ handleCurrencyChange
  \/ handleQuickDateFilter
  \/ clearClicked

FormSpec == FormInit /\ [][FormNext]_vars

\* ================================================================ claims

\* the position in seq of the transaction with this id, 0 when it has none
PositionIn(seq, transaction) ==
  LET at == {i \in 1..Len(seq) : "id" \in DOMAIN seq[i] /\ seq[i].id = transaction.id}
  IN IF at = {} THEN 0 ELSE CHOOSE i \in at : TRUE

\* the position of a transaction of the canonical set (ids are unique there)
CanonicalPosition(transaction) == PositionIn(allTransactions, transaction)

\* C1: in every settled state of the store, the view is the stable sort, by
\* the current sort specification, of filterTransactions(allTransactions,
\* filters): it holds exactly the filtered transactions, in an order the
\* comparator accepts, and transactions that compare equal stand in
\* canonical-set order.
C1_ViewIsStableSortOfFiltered ==
  LET filtered == filterTransactions(allTransactions, filters)
      view == filteredTransactions
  IN /\ filterThrown(allTransactions, filters) = None
     /\ Len(view) = Len(filtered)
     /\ \A i \in 1..Len(filtered) : \E j \in 1..Len(view) : view[j] = filtered[i]
     /\ \A i, j \in 1..Len(view) :
          i < j => /\ compareThrown(view[i], view[j], sort) = None
                   /\ order(compareValue(view[i], view[j], sort)) <= 0
                   /\ order(compareValue(view[i], view[j], sort)) = 0
                        => CanonicalPosition(view[i]) < CanonicalPosition(view[j])

\* C1 witness: the ledger loaded, a search term set that keeps a part of it,
\* and the view sorted by type descending.
C1_Witness ==
  /\ loadingState = "success"
  /\ inFlight = 0
  /\ allTransactions = CachedLedger
  /\ filters = [k \in {"search"} |-> Some(<<"p", "A">>)]
  /\ sort = [field |-> "type", direction |-> "desc"]
  /\ Len(filteredTransactions) >= 2
  /\ Len(filteredTransactions) < Len(allTransactions)

\* C2: whenever stats is non-null it equals calculateStats of the filtered
\* subset in canonical (pre-display-sort) order, and equals a fresh
\* aggregation of the current view; setSort, which does not re-aggregate,
\* never leaves it otherwise.
C2_StatsMatchFiltered ==
  IsSome(stats) =>
    /\ The(stats) = calculateStats(filterTransactions(allTransactions, filters))
    /\ The(stats) = calculateStats(filteredTransactions)

\* ---- calculateStats on its own
StatsCalled == fn = "calculateStats" /\ IsSome(ret)

RECURSIVE SumCounts(_, _)
SumCounts(history, i) ==
  IF i > Len(history) THEN 0 ELSE history[i].transactions + SumCounts(history, i + 1)

\* a sequence with the positions in `removed` dropped
Dropping(seq, removed) ==
  LET keep == (1..Len(seq)) \ removed
  IN [k \in 1..Cardinality(keep) |->
        seq[CHOOSE i \in keep : Cardinality({j \in keep : j < i}) = k - 1]]

\* C3: calculateStats returns the same currentBalance and the same
\* balanceHistory (days, balances, counts) for every permutation of its
\* input, in particular for every display sort of it, also when several
\* transactions share a timestamp.
C3_StatsOrderIndependent ==
  StatsCalled =>
    LET transactions == The(args)
        n == Len(transactions)
        same(r) == /\ r.currentBalance = The(ret).currentBalance
                   /\ r.balanceHistory = The(ret).balanceHistory
    IN /\ \A p \in Permutations(1..n) :
            same(calculateStats([i \in 1..n |-> transactions[p[i]]]))
       /\ \A s \in Sorts : same(calculateStats(sortTransactions(transactions, s)))

\* C4: currentBalance is totalDeposits - totalWithdraws; removing transfers
\* or changing their amounts changes, of the totals and balances,
\* totalTransfers only: currentBalance, the other totals and the balance of
\* every balance point that remains are the same.
C4_BalanceIdentity ==
  StatsCalled =>
    LET transactions == The(args)
        r == The(ret)
        transfers == {i \in 1..Len(transactions) : transactions[i].type = "transfer"}
        changed(delta) == [i \in 1..Len(transactions) |->
                             IF i \in transfers
                             THEN [transactions[i] EXCEPT !.amount = @ + delta]
                             ELSE transactions[i]]
    IN /\ r.currentBalance = minus(r.totalDeposits, r.totalWithdraws)
       /\ \A removed \in SUBSET transfers : \A delta \in {0, 40} :
            LET other == Dropping(changed(delta), removed)
                o == calculateStats(other)
            IN /\ o.currentBalance = r.currentBalance
               /\ o.totalDeposits = r.totalDeposits
               /\ o.totalWithdraws = r.totalWithdraws
               /\ \A i \in 1..Len(o.balanceHistory) : \E j \in 1..Len(r.balanceHistory) :
                    /\ r.balanceHistory[j].date = o.balanceHistory[i].date
                    /\ r.balanceHistory[j].balance = o.balanceHistory[i].balance
               /\ removed = {} => o.balanceHistory = r.balanceHistory

\* C5: the transactions counts of the balance points add up to
\* totalTransactions, which is the length of the input.
C5_DayCountsAddUp ==
  StatsCalled =>
    /\ The(ret).totalTransactions = Len(The(args))
    /\ SumCounts(The(ret).balanceHistory, 1) = The(ret).totalTransactions

\* C5 witness: three transactions over two days, two of them on one day.
C5_Witness ==
  /\ StatsCalled
  /\ Len(The(args)) = 3
  /\ Len(The(ret).balanceHistory) = 2
  /\ The(ret).balanceHistory[1].transactions = 2

\* C6: balanceHistory is strictly ascending by date and has exactly one
\* point for each calendar day on which an input transaction occurred.
C6_HistoryOnePointPerDay ==
  StatsCalled =>
    LET history == The(ret).balanceHistory
        transactions == The(args)
    IN /\ \A i, j \in 1..Len(history) :
            i < j => parseDay(history[i].date) < parseDay(history[j].date)
       /\ {history[i].date : i \in 1..Len(history)}
            = {dateKey(transactions[i].date) : i \in 1..Len(transactions)}

\* C6 witness: the input names the later day first and the earlier day twice,
\* at different times of day.
C6_Witness ==
  /\ StatsCalled
  /\ Len(The(args)) = 3
  /\ The(args)[1].date.day = 1
  /\ The(args)[2].date = [day |-> 0, tick |-> 1]
  /\ The(args)[3].date = [day |-> 0, tick |-> 0]
  /\ Len(The(ret).balanceHistory) = 2

\* the spec's scenario 1, on days 0 and 1: the amounts 100, 40 and 10
Scenario1 ==
  << Transaction(1, "deposit", 10000, "BTC", 0, 0, None),
     Transaction(2, "withdraw", 4000, "BTC", 0, 1, None),
     Transaction(3, "deposit", 1000, "BTC", 1, 0, None) >>

\* the transactions dated on or before a day
Through(transactions, day) == SelectSeq(transactions, LAMBDA t : dateKey(t.date) <= day)

\* C7: each balance point's balance is the running balance after the
\* chronologically last transaction of its day: deposits minus withdrawals
\* added up, in chronological order, over all input transactions dated on or
\* before that day; the last point's balance is currentBalance (zero and no
\* point for the empty input); deposit 100 and withdraw 40 on one day and
\* deposit 10 on the next give the points (day, 60, 2) and (next day, 70, 1)
\* and currentBalance 70.
C7_PointIsBalanceThroughDay ==
  /\ calculateStats(Scenario1).currentBalance = Number(7000)
  /\ calculateStats(Scenario1).balanceHistory
       = << [date |-> 0, balance |-> Number(6000), transactions |-> 2],
            [date |-> 1, balance |-> Number(7000), transactions |-> 1] >>
  /\ StatsCalled =>
       LET history == The(ret).balanceHistory
           transactions == The(args)
       IN /\ \A i \in 1..Len(history) :
               history[i].balance
                 = calculateStats(Through(transactions, history[i].date)).currentBalance
          /\ Len(history) > 0 => history[Len(history)].balance = The(ret).currentBalance
          /\ Len(transactions) = 0 => Len(history) = 0 /\ The(ret).currentBalance = Zero

\* C7 witness: a withdrawal of 0.1 on the first day listed before that day's
\* earlier deposit of 0.3, and a deposit of 0.2 on the next day.
C7_Witness ==
  /\ StatsCalled
  /\ Len(The(args)) = 3
  /\ The(args)[1].type = "withdraw" /\ The(args)[1].date = [day |-> 0, tick |-> 1]
  /\ The(args)[2].type = "deposit" /\ The(args)[2].date = [day |-> 1, tick |-> 0]
  /\ The(args)[3].type = "deposit" /\ The(args)[3].date = [day |-> 0, tick |-> 0]
  /\ The(ret).balanceHistory =
       << [date |-> 0, balance |-> minus(Number(30), Number(10)), transactions |-> 2],
          [date |-> 1, balance |-> plus(minus(Number(30), Number(10)), Number(20)),
           transactions |-> 1] >>

\* ---- filterTransactions on its own
FilterCalled == fn = "filterTransactions" /\ IsSome(ret)

\* sub holds elements of seq only, each at most once, in their order in seq
IsSubsequence(sub, seq) ==
  \E f \in [1..Len(sub) -> 1..Len(seq)] :
    /\ \A i, j \in 1..Len(sub) : i < j => f[i] < f[j]
    /\ \A i \in 1..Len(sub) : sub[i] = seq[f[i]]

\* C8: filterTransactions returns a subsequence of its input, and with the
\* empty filter specification (no field, or every field undefined) it returns
\* the input unchanged.
C8_FilterReturnsSubsequence ==
  FilterCalled =>
    LET transactions == The(args).transactions
        f == The(args).filters
    IN /\ IsSubsequence(The(ret), transactions)
       /\ (\A k \in FilterKeys : f[k] = None) => The(ret) = transactions
       /\ filterTransactions(transactions, EmptyFilters) = transactions

\* C8 witness: of two transactions the filter kept the second only.
C8_Witness ==
  /\ FilterCalled
  /\ Len(The(args).transactions) = 2
  /\ The(ret) = <<The(args).transactions[2]>>
  /\ The(args).filters.type = Some("deposit")

\* the filters object without one of its keys
Without(f, key) == [k \in DOMAIN f \ {key} |-> f[k]]

\* C9: a setFilters call that leaves the filters with a minAmount of zero or
\* less yields the view and the statistics that the call yields with the same
\* filters and minAmount absent (the canonical set holding amounts >= 0
\* only): those of the filtered and sorted canonical set when the
\* recomputation goes through, and in any case what the call on the filters
\* without minAmount leaves; a transaction of amount zero passes the one
\* exactly when it passes the other.
C9_NonPositiveMinAmountIsNoFilter ==
  [][ ( /\ filters' # filters
        /\ IsSome(Get(filters', "minAmount"))
        /\ The(Get(filters', "minAmount")) <= 0 ) =>
        \A absent \in {Without(filters', "minAmount")} :
          \A same \in {_calculateStats(_applyFiltersAndSort(
                          [Current EXCEPT !.filters = absent]))} :
            /\ filteredTransactions' = same.filteredTransactions
            /\ stats' = same.stats
            /\ ~IsSome(same.thrown) =>
                 /\ filteredTransactions' =
                      sortTransactions(filterTransactions(allTransactions', absent), sort')
                 /\ stats' = Some(calculateStats(filteredTransactions'))
            /\ IsArray(allTransactions') =>
                 /\ \A i \in 1..Len(allTransactions') : allTransactions'[i].amount >= 0
                 /\ \A i \in 1..Len(allTransactions') :
                      \A zero \in {[allTransactions'[i] EXCEPT !.amount = 0]} :
                        matches(zero, filters') <=> matches(zero, absent) ]_vars

\* C9 witness: setFilters({minAmount: -5}) on top of a type filter, on loaded
\* data of which the type filter keeps a part.
C9_Witness ==
  /\ loadingState = "success"
  /\ Get(filters, "minAmount") = Some(-5)
  /\ Get(filters, "type") = Some("deposit")
  /\ Len(filteredTransactions) >= 1
  /\ Len(filteredTransactions) < Len(allTransactions)

\* C10: the date filter excludes a transaction only if its calendar day lies
\* before the day dateFrom or after the day dateTo: a transaction that passes
\* the other constraints and whose day is within [dateFrom, dateTo] is in the
\* result, whatever its time of day.
C10_DateBoundsInclusive ==
  FilterCalled =>
    LET transactions == The(args).transactions
        f == The(args).filters
    IN \A i \in 1..Len(transactions) :
         LET t == transactions[i]
         IN (/\ passesType(t, f) /\ passesMinAmount(t, f)
             /\ passesCurrency(t, f) /\ passesSearch(t, f)
             /\ IsSome(f.dateFrom) => dateKey(t.date) >= The(f.dateFrom)
             /\ IsSome(f.dateTo) => dateKey(t.date) <= The(f.dateTo))
            => \E j \in 1..Len(The(ret)) : The(ret)[j] = t

\* the value a transaction is sorted on, None when it has none (no date, or
\* a type that is no label)
SortKey(transaction, field) ==
  CASE field = "date" -> timeOf(transaction)
    [] field = "amount" -> Some(transaction.amount)
    [] field = "type" -> IF transaction.type \in TransactionTypes
                         THEN Some(TypeRank(transaction.type)) ELSE None

\* a stands rightly before b under a sort specification, a being at position
\* pa and b at position pb of the sequence that decides ties; a transaction
\* without a value on the field constrains nothing
InOrder(a, b, by, pa, pb) ==
  LET ka == SortKey(a, by.field)
      kb == SortKey(b, by.field)
  IN IsSome(ka) /\ IsSome(kb) =>
       /\ by.direction = "asc" => The(ka) <= The(kb)
       /\ by.direction = "desc" => The(ka) >= The(kb)
       /\ The(ka) = The(kb) => pa < pb

SortCalled == fn = "sortTransactions" /\ IsSome(ret)

\* C11: sortTransactions is stable for every field and both directions: its
\* output holds the input's transactions, ordered on the active field in the
\* given direction, and two transactions equal on that field stand in their
\* input order, ascending and descending alike; amounts [50a, 50b, 10] sorted
\* ascending give [10, 50a, 50b].
C11_SortIsStable ==
  SortCalled =>
    LET in == The(args).transactions
        by == The(args).sort
        out == The(ret)
    IN /\ Len(out) = Len(in)
       /\ \A i \in 1..Len(in) : \E j \in 1..Len(out) : out[j] = in[i]
       /\ \A i, j \in 1..Len(out) :
            i < j => InOrder(out[i], out[j], by,
                             PositionIn(in, out[i]), PositionIn(in, out[j]))
       /\ ( /\ Len(in) = 3 /\ by.field = "amount"
            /\ in[1].amount = 50 /\ in[2].amount = 50 /\ in[3].amount = 10 )
          => out = IF by.direction = "asc" THEN <<in[3], in[1], in[2]>> ELSE in

\* C11 witness: amounts [50a, 50b, 10] of different types and dates sorted by
\* amount descending come back as [50a, 50b, 10].
C11_Witness ==
  /\ SortCalled
  /\ The(args).sort = [field |-> "amount", direction |-> "desc"]
  /\ Len(The(args).transactions) = 3
  /\ The(args).transactions[1].amount = 50 /\ The(args).transactions[1].type = "withdraw"
  /\ The(args).transactions[2].amount = 50 /\ The(args).transactions[2].type = "deposit"
  /\ The(args).transactions[3].amount = 10
  /\ The(ret) = The(args).transactions

\* C12: loadingState starts as idle and changes only from any state to
\* loading (loadTransactions called) and from loading to success or to error
\* (a load settling): never back to idle, never between success and error
\* without passing through loading.
C12_LoadingStateTransitions ==
  /\ loadingState = "idle"
  /\ [][ loadingState' # loadingState =>
           \/ loadingState' = "loading"
           \/ loadingState = "loading" /\ loadingState' \in {"success", "error"} ]_vars

\* C12 witness: a reload requested on a loaded store, which went from success
\* to loading.
C12_Witness ==
  /\ loadingState = "loading"
  /\ inFlight = 1
  /\ allTransactions = CachedLedger
  /\ IsSome(stats)

\* a step in which a suspended load settles in failure
LoadFailing == inFlight' = inFlight - 1 /\ loadingState' = "error"
\* a step in which a load is requested
LoadRequested == inFlight' = inFlight + 1

\* C13: a load that fails leaves the canonical set, the filter specification
\* and the sort specification as they were: neither the request nor the
\* failure changes any of them, so a failed reload never clears or replaces
\* loaded data.
C13_FailedLoadKeepsData ==
  [][ (LoadRequested \/ LoadFailing) => UNCHANGED <<allTransactions, filters, sort>> ]_vars

\* C14: when a load fails and loadingState becomes error, the view
\* (filteredTransactions) becomes empty.
C14_FailedLoadEmptiesView ==
  [][ LoadFailing => filteredTransactions' = <<>> ]_vars

\* C15: every state the store publishes, after each single set call, is
\* consistent: the view is the sorted filtered canonical set under the
\* published filters and sort, and the statistics, once computed, are those
\* of the published view; no published state has a new canonical set or new
\* filters with a stale view or stale statistics.
C15_PublishedStatesConsistent ==
  /\ filteredTransactions =
       sortTransactions(filterTransactions(allTransactions, filters), sort)
  /\ IsSome(stats) => The(stats) = calculateStats(filteredTransactions)

\* a step in which setFilters(newFilters) changes the filter specification
\* (clearFilters, the one other handler writing filters, leaves it empty; a
\* setFilters call repeating a field's value changes no part of a settled
\* state)
SetFiltersCalled(newFilters) ==
  /\ filters' # filters
  /\ filters' = updatedFilters(filters, newFilters)

\* C16: setFilters(partial) is a shallow merge: a field omitted from partial
\* keeps its previous value (or absence), a field given in partial takes the
\* given value, and a field given as undefined constrains nothing; the view
\* and the statistics are recomputed in the same step, and loadingState,
\* error, sort and the canonical set are unchanged.
C16_SetFiltersMerges ==
  [][ \A newFilters \in Partials :
        SetFiltersCalled(newFilters) =>
          /\ \A k \in FilterKeys \ DOMAIN newFilters :
               /\ k \in DOMAIN filters' <=> k \in DOMAIN filters
               /\ k \in DOMAIN filters => filters'[k] = filters[k]
          /\ \A k \in DOMAIN newFilters :
               /\ k \in DOMAIN filters'
               /\ filters'[k] = newFilters[k]
               /\ newFilters[k] = None =>
                    filterTransactions(allTransactions', filters') =
                      filterTransactions(allTransactions', Without(filters', k))
          /\ \A filtered \in {filterTransactions(allTransactions', filters')} :
               filteredTransactions' = sortTransactions(filtered, sort')
          /\ stats' = Some(calculateStats(filteredTransactions'))
          /\ UNCHANGED <<loadingState, error, sort, allTransactions>> ]_vars

\* C16 witness: on the loaded ledger, minAmount 50 was set and type was then
\* given as undefined: minAmount kept its value and still cuts the view to
\* the two transactions of 50, type constrains nothing.
C16_Witness ==
  /\ allTransactions = CachedLedger
  /\ DOMAIN filters = {"minAmount", "type"}
  /\ filters["minAmount"] = Some(50)
  /\ filters["type"] = None
  /\ Len(filteredTransactions) = 2
  /\ IsSome(stats) /\ The(stats).totalTransactions = 2

\* a step in which a suspended load settles in success
LoadSucceeding == inFlight' = inFlight - 1 /\ loadingState' = "success"

\* C17: a failed load is retryable: in error, loadTransactions can be called
\* and moves the store to loading with error reset to null; a store in
\* loading eventually reaches success or error; and a load settling in
\* success has replaced the canonical set by what the data source returned
\* and recomputed the view and the statistics.
C17_FailedLoadIsRetryable ==
  /\ [](loadingState = "error" /\ inFlight < MaxInFlight => ENABLED loadTransactions)
  /\ [][ loadingState = "error" /\ LoadRequested =>
           loadingState' = "loading" /\ error' = None ]_vars
  /\ (loadingState = "loading") ~> (loadingState \in {"success", "error"})
  /\ [][ LoadSucceeding =>
           /\ \E read \in Reads : allTransactions' = read.transactions
           /\ \A filtered \in {filterTransactions(allTransactions', filters')} :
                filteredTransactions' = sortTransactions(filtered, sort')
           /\ stats' = Some(calculateStats(filteredTransactions'))
           /\ error' = error ]_vars

\* C17 witness: a reload of a loaded store failed; no load is pending, the
\* message is set, and loadTransactions is the way on.
C17_Witness ==
  /\ loadingState = "error"
  /\ error = Some("a.type.localeCompare is not a function")
  /\ inFlight = 0
  /\ Len(allTransactions) = 2

\* a step in which clearFilters runs: the one handler that empties a filter
\* specification, or that, on an empty one and with no load settling,
\* computes the statistics
ClearFiltersCalled ==
  /\ filters' = EmptyFilters
  /\ UNCHANGED inFlight
  /\ filters # EmptyFilters \/ stats' # stats

\* C18: after clearFilters the filter specification is empty and the view
\* holds every transaction of the canonical set exactly once, ordered by the
\* current sort (ties in canonical order), whatever the filters were before;
\* sort, loadingState and the canonical set are unchanged.
C18_ClearFiltersShowsAll ==
  [][ ClearFiltersCalled =>
        /\ DOMAIN filters' = {}
        /\ Len(filteredTransactions') = Len(allTransactions')
        /\ \A i \in 1..Len(allTransactions') :
             \E j \in 1..Len(filteredTransactions') :
               filteredTransactions'[j] = allTransactions'[i]
        /\ \A i, j \in 1..Len(filteredTransactions') :
             i < j => InOrder(filteredTransactions'[i], filteredTransactions'[j], sort',
                              PositionIn(allTransactions', filteredTransactions'[i]),
                              PositionIn(allTransactions', filteredTransactions'[j]))
        /\ UNCHANGED <<sort, loadingState, allTransactions>> ]_vars

\* C18 witness: the whole ledger loaded and in view under an empty filter
\* specification, sorted by amount ascending, the two transactions of 10
\* first and in ledger order.
C18_Witness ==
  /\ loadingState = "success"
  /\ allTransactions = CachedLedger
  /\ filters = EmptyFilters
  /\ sort = [field |-> "amount", direction |-> "asc"]
  /\ filteredTransactions =
       <<CachedLedger[2], CachedLedger[4], CachedLedger[1], CachedLedger[3]>>

\* C19: whenever the store is settled with an empty view (nothing loaded
\* yet, or the filters excluding every transaction), stats is the zero-valued
\* statistics: no transactions, all type totals 0, currentBalance 0 and an
\* empty balanceHistory.
C19_EmptyViewZeroStats ==
  filteredTransactions = <<>> =>
    /\ IsSome(stats)
    /\ The(stats).totalTransactions = 0
    /\ The(stats).totalDeposits = Zero
    /\ The(stats).totalWithdraws = Zero
    /\ The(stats).totalTransfers = Zero
    /\ The(stats).currentBalance = Zero
    /\ The(stats).balanceHistory = <<>>

\* the fields of a filter specification holding a value
ActiveKeys(f) == {k \in DOMAIN f : IsSome(f[k])}

\* the filter specification holding field key of f alone
Single(f, key) == [k \in {key} |-> f[k]]

\* term occurs in str
IsSubstring(term, str) ==
  \E i \in 1..(Len(str) - Len(term) + 1) :
    \A j \in 1..Len(term) : str[i + j - 1] = term[j]

\* the transaction passes every active constraint of f, each on its own
PassesEach(transaction, f) ==
  /\ \A k \in ActiveKeys(f) \cap {"dateFrom", "dateTo"} :
       filterTransactions(<<transaction>>, Single(f, k)) = <<transaction>>
  /\ IsSome(f.type) => transaction.type = The(f.type)
  /\ IsSome(f.currency) => transaction.currency = The(f.currency)
  /\ IsSome(f.minAmount) => transaction.amount >= The(f.minAmount)
  /\ IsSome(f.search) =>
       LET term == toLowerCase(The(f.search))
           description == IF IsSome(transaction.description)
                          THEN The(transaction.description) ELSE <<>>
       IN \/ IsSubstring(term, toLowerCase(description))
          \/ IsSubstring(term, toLowerCase(transaction.id))

\* the results of applying the single-field filters of keys one after
\* another, in every order
RECURSIVE InEveryOrder(_, _, _)
InEveryOrder(transactions, f, keys) ==
  IF keys = {} THEN {transactions}
  ELSE UNION {InEveryOrder(filterTransactions(transactions, Single(f, k)), f, keys \ {k}) :
                k \in keys}

\* C20: the constraints compose by AND: a transaction of the input is in the
\* result exactly when it passes every active constraint (type and currency
\* by equality, minAmount by amount >= minAmount, search by the lower-cased
\* term occurring in the lower-cased description, empty when absent, or in
\* the lower-cased id), and applying the single-field filters one after
\* another gives that same result in every order.
C20_ConstraintsComposeByAnd ==
  FilterCalled =>
    LET transactions == The(args).transactions
        f == The(args).filters
        result == The(ret)
    IN /\ \A i \in 1..Len(transactions) :
            (\E j \in 1..Len(result) : result[j] = transactions[i])
              <=> PassesEach(transactions[i], f)
       /\ InEveryOrder(transactions, f, ActiveKeys(f)) = {result}

\* C20 witness: of two ledger entries under type deposit, currency BTC,
\* minAmount 50 and search "pA", the deposit of 50 passes all four and the
\* transfer of 50 fails on type and on search.
C20_Witness ==
  /\ FilterCalled
  /\ The(args).transactions = <<CachedLedger[3], CachedLedger[1]>>
  /\ The(args).filters.type = Some("deposit")
  /\ The(args).filters.currency = Some("BTC")
  /\ The(args).filters.minAmount = Some(50)
  /\ The(args).filters.search = Some(<<"p", "A">>)
  /\ The(ret) = <<CachedLedger[1]>>

\* a step in which setSort changes the sort specification (no other handler
\* writes sort; a setSort call repeating the specification changes no part
\* of a settled state)
SetSortCalled == sort' # sort

\* C21: setSort replaces the sort specification and changes only the order
\* of the view: the view holds exactly the members it held before, ordered
\* on the new field in the new direction with ties in canonical-set order
\* (whatever order the previous view had them in), and stats, filters,
\* loadingState, error and the canonical set are unchanged.
C21_SetSortReordersOnly ==
  [][ SetSortCalled =>
        /\ sort' \in Sorts
        /\ Len(filteredTransactions') = Len(filteredTransactions)
        /\ \A i \in 1..Len(filteredTransactions) :
             \E j \in 1..Len(filteredTransactions') :
               filteredTransactions'[j] = filteredTransactions[i]
        /\ \A i, j \in 1..Len(filteredTransactions') :
             i < j => InOrder(filteredTransactions'[i], filteredTransactions'[j], sort',
                              PositionIn(allTransactions', filteredTransactions'[i]),
                              PositionIn(allTransactions', filteredTransactions'[j]))
        /\ UNCHANGED <<stats, filters, loadingState, error, allTransactions>> ]_vars

\* C21 witness: the ledger in view under a type filter given as undefined,
\* sorted by type ascending: the two deposits in ledger order, the transfer,
\* the withdrawal.
C21_Witness ==
  /\ loadingState = "success"
  /\ allTransactions = CachedLedger
  /\ sort = [field |-> "type", direction |-> "asc"]
  /\ filteredTransactions =
       <<CachedLedger[1], CachedLedger[4], CachedLedger[3], CachedLedger[2]>>
  /\ IsSome(stats) /\ The(stats).totalTransactions = 4

C23_LoadingWhileInFlight ==
  inFlight > 0 => loadingState = "loading"

\* a step of setFilters, clearFilters or setSort taken while a load is in
\* flight
EditedInFlight == inFlight > 0 /\ inFlight' = inFlight

\* C24: a setFilters, clearFilters or setSort call made while a load is in
\* flight is not lost: the call itself leaves loadingState as it is, and
\* when a load succeeds it keeps the filter and sort specifications it finds
\* and computes the view and the statistics from the newly loaded canonical
\* set with them.
C24_EditsInFlightAreKept ==
  /\ [][ EditedInFlight => loadingState' = loadingState ]_vars
  /\ [][ LoadSucceeding =>
           /\ filters' = filters
           /\ sort' = sort
           /\ \A filtered \in {filterTransactions(allTransactions', filters)} :
                /\ filteredTransactions' = sortTransactions(filtered, sort)
                /\ stats' = Some(calculateStats(filteredTransactions')) ]_vars

\* C24 witness: the whole ledger loaded under a type filter and a sort by
\* amount ascending: the view holds the two deposits, the one of 10 first,
\* and the statistics count two transactions.
C24_Witness ==
  /\ loadingState = "success"
  /\ inFlight = 0
  /\ allTransactions = CachedLedger
  /\ filters = [k \in {"type"} |-> Some("deposit")]
  /\ sort = [field |-> "amount", direction |-> "asc"]
  /\ filteredTransactions = <<CachedLedger[4], CachedLedger[1]>>
  /\ IsSome(stats) /\ The(stats).totalTransactions = 2

\* a step of the form in which the reset button empties the filters
ResetClicked == filters # EmptyFilters /\ filters' = EmptyFilters

\* C25: a debounced search or minAmount update scheduled before the reset
\* click does not fire after it: the click leaves no such update pending (so
\* the filter specification stays empty until the user makes a new input);
\* and an update that fires passes the value typed last.
C25_ResetDropsPendingUpdates ==
  /\ [][ ResetClicked => args' = None /\ ret' = None ]_vars
  /\ [][ IsSome(args) /\ args' = None /\ The(args) # <<>> =>
           filters'["search"] = args ]_vars

\* C26: hasActiveFilters (which shows the reset button) is true exactly when
\* some field of filters has a defined value; a field set and then cleared
\* through setFilters with undefined leaves hasActiveFilters false.
C26_ResetShownIffConstraintActive ==
  hasActiveFilters(filters) <=> \E k \in DOMAIN filters : IsSome(filters[k])

====
